---- MODULE Spec2Model ----
(***************************************************************************)
(* Meeting registry of the JoinUs chat server: the in-memory cache of      *)
(* meeting objects (activeMeetings), its Firestore mirror, and the HTTP    *)
(* and Socket.IO handlers that drive createMeeting, joinMeeting,           *)
(* leaveMeeting, endMeeting, addMessage and getParticipants.               *)
(*                                                                         *)
(* A handler runs without interruption up to its next awaited store call   *)
(* (a read or a write); handlers interleave at those points.  A cache hit  *)
(* in getMeetingById resolves at once and is not an interleaving point.    *)
(* Meeting objects are JavaScript objects shared by reference: the cache   *)
(* and every handler that looked a meeting up hold the same object, so the *)
(* model keeps a heap of objects and references into it.                   *)
(***************************************************************************)
EXTENDS Integers, Sequences, FiniteSets, TLC

\* ------------------------------------------------------------------ bounds
NumMeetingIds == 1  \* identifiers generateMeetingId can draw
NumProcs      == 2  \* handlers in flight at the same time
NumSockets    == 2  \* client connections
NumUids       == 2  \* user identifiers clients present
MaxOps        == 3  \* requests served in one behaviour
MaxFaults     == 1  \* store calls that error in one behaviour
MaxClock      == 1  \* largest value of the server clock

\* ------------------------------------------------------- program constants
MAX_PARTICIPANTS == 10

MeetingIds == 1..NumMeetingIds
Procs      == 1..NumProcs
Sockets    == 1..NumSockets
Uids       == 1..NumUids
ObjIds     == 1..(NumMeetingIds + NumProcs)

Undefined == 0      \* a socket.data field that was never set
NoRef     == 0      \* no meeting object (null)

\* ----------------------------------------------------------------- strings
\* A string is a sequence of runs, a run being n >= 1 copies of one character;
\* characters are named by tokens.  A value a client sends is a string or
\* undefined.
Run(c, n) == [c |-> c, n |-> n]
JsString(runs) == [type |-> "string", runs |-> runs]
JsUndefined == [type |-> "undefined", runs |-> <<>>]

Digit == {"0", "1", "2", "3", "4", "5", "6", "7", "8", "9"}
\* the characters String.prototype.trim removes
WhiteSpace == {"SPACE", "TAB", "NEWLINE"}

RECURSIVE StrLen(_)
StrLen(runs) == IF runs = <<>> THEN 0 ELSE Head(runs).n + StrLen(Tail(runs))

\* the character at position i (from 1) of a string at least that long
RECURSIVE CharAt(_, _)
CharAt(runs, i) ==
    IF i <= Head(runs).n THEN Head(runs).c ELSE CharAt(Tail(runs), i - Head(runs).n)

RECURSIVE trimStart(_)
trimStart(runs) ==
    IF runs # <<>> /\ Head(runs).c \in WhiteSpace THEN trimStart(Tail(runs)) ELSE runs

RECURSIVE trimEnd(_)
trimEnd(runs) ==
    IF runs # <<>> /\ runs[Len(runs)].c \in WhiteSpace
    THEN trimEnd(SubSeq(runs, 1, Len(runs) - 1))
    ELSE runs

\* String.prototype.trim
trim(runs) == trimEnd(trimStart(runs))

\* String(v), as RegExp.prototype.test applies it to its argument
ToStr(v) ==
    IF v.type = "string" THEN v.runs
    ELSE <<Run("u", 1), Run("n", 1), Run("d", 1), Run("e", 1), Run("f", 1),
           Run("i", 1), Run("n", 1), Run("e", 1), Run("d", 1)>>

\* Number.prototype.toString of a natural number
RECURSIVE DigitsOf(_)
DigitsOf(n) ==
    LET d == <<Run(CHOOSE c \in Digit : c = ToString(n % 10), 1)>>
    IN  IF n < 10 THEN d ELSE DigitsOf(n \div 10) \o d

\* ---------------------------------------------------------------- validation
\* the match of \d{k} from position pos: the position after it, 0 for no match
RECURSIVE MatchDigits(_, _, _)
MatchDigits(runs, pos, k) ==
    IF k = 0 THEN pos
    ELSE IF pos <= StrLen(runs) /\ CharAt(runs, pos) \in Digit
    THEN MatchDigits(runs, pos + 1, k - 1)
    ELSE 0

\* the pattern without its end anchor: six digits and anything after them
isValidMeetingIdUnanchored(v) == MatchDigits(ToStr(v), 1, 6) # 0

\* /^\d{6}$/.test(meetingId): six digits from the start, then the end of input
isValidMeetingId(v) ==
    LET end == MatchDigits(ToStr(v), 1, 6)
    IN  end # 0 /\ end = StrLen(ToStr(v)) + 1

\* the fields are not trimmed before their length is taken
isValidUserDataUntrimmed(uid, name) ==
    /\ uid.type = "string"
    /\ StrLen(uid.runs) > 0
    /\ name.type = "string"
    /\ StrLen(name.runs) > 0

\* typeof uid === "string" && uid.trim().length > 0, and the same of name
isValidUserData(uid, name) ==
    /\ uid.type = "string"
    /\ StrLen(trim(uid.runs)) > 0
    /\ name.type = "string"
    /\ StrLen(trim(name.runs)) > 0

\* the length limit compared with < in place of <=
isValidMessageBelowLimit(text) ==
    text.type = "string" /\ StrLen(trim(text.runs)) > 0 /\ StrLen(text.runs) < 1000

isValidMessage(text) ==
    text.type = "string" /\ StrLen(trim(text.runs)) > 0 /\ StrLen(text.runs) <= 1000

\* a valid message text, trimmed: "hi"
Text == <<Run("h", 1), Run("i", 1)>>

\* Math.floor(Math.random() * 900000) for the draw that yields identifier m:
\* the least value, then the greatest ones
RandomDraw(m) == IF m = 1 THEN 0 ELSE 900001 - m

\* generateMeetingId: Math.floor(100000 + Math.random() * 900000).toString()
generateMeetingId(m) == DigitsOf(100000 + RandomDraw(m))

\* the strings behind the user identifiers and display names of the model
UidString(u) == <<Run("u", 1)>> \o DigitsOf(u)
NameString(n) == <<Run("n", 1)>> \o DigitsOf(n)

\* meetings and users are keyed by their place in the model; 0 stands for an
\* identifier that names no meeting or user of the model
MeetingIdStrings == [m \in MeetingIds |-> generateMeetingId(m)]

MeetingKey(v) ==
    IF \E m \in MeetingIds : MeetingIdStrings[m] = ToStr(v)
    THEN CHOOSE m \in MeetingIds : MeetingIdStrings[m] = ToStr(v)
    ELSE 0

UidStrings == [u \in Uids |-> UidString(u)]

UidKey(v) ==
    IF \E u \in Uids : UidStrings[u] = ToStr(v)
    THEN CHOOSE u \in Uids : UidStrings[u] = ToStr(v)
    ELSE 0

\* the display name a connection presents
NameOf(s) == s

\* ------------------------------------------------------------- client input
\* meeting identifiers clients send that no meeting has
OtherIds ==
    {JsString(<<Run("0", 6)>>),                       \* "000000"
     JsString(<<Run("1", 5)>>),                       \* "11111"
     JsString(<<Run("1", 7)>>),                       \* "1111111"
     JsString(<<Run("1", 5), Run("a", 1)>>),          \* "11111a"
     JsString(<<Run("1", 6), Run("NEWLINE", 1)>>),    \* "111111\n"
     JsString(<<Run("SPACE", 1), Run("1", 6)>>),      \* " 111111"
     JsString(<<Run("ARABIC-INDIC THREE", 6)>>),      \* six non-ASCII digits
     JsString(<<>>),                                  \* ""
     JsUndefined}

IdValues == {JsString(generateMeetingId(m)) : m \in MeetingIds} \cup OtherIds

Blank == {JsString(<<>>), JsString(<<Run("SPACE", 2)>>), JsUndefined}

\* what connection s sends with "join-meeting": its own display name and any
\* user and meeting of the model, or one field that is off
JoinData(s) ==
    LET good(m, u) == [meetingId |-> JsString(generateMeetingId(m)),
                       uid |-> JsString(UidString(u)),
                       name |-> JsString(NameString(NameOf(s)))]
    IN  {good(m, u) : m \in MeetingIds, u \in Uids}
        \cup {[good(1, 1) EXCEPT !.meetingId = v] :
                  v \in {JsString(<<Run("0", 6)>>), JsString(<<Run("1", 5)>>),
                         JsString(<<Run("1", 7)>>), JsUndefined}}
        \cup {[good(1, 1) EXCEPT !.uid = v] : v \in Blank}
        \cup {[good(1, 1) EXCEPT !.name = v] : v \in Blank}

\* the "join-meeting" events: a connection and its data
JoinEvents == UNION {{<<s, d>> : d \in JoinData(s)} : s \in Sockets}

\* message texts clients send
Texts ==
    {JsString(<<Run("SPACE", 1)>> \o Text \o <<Run("NEWLINE", 1)>>),  \* " hi\n"
     JsString(<<Run("a", 1000)>>),
     JsString(<<Run("a", 1001)>>),
     JsString(<<Run("SPACE", 1), Run("a", 1000)>>),
     JsString(<<Run("SPACE", 3)>>),
     JsString(<<>>),
     JsUndefined}

SendData ==
    {[meetingId |-> JsString(generateMeetingId(m)), text |-> t] :
        m \in MeetingIds, t \in Texts}
    \cup {[meetingId |-> JsString(<<Run("1", 7)>>), text |-> JsString(Text)]}

\* the input of clients that send what the user interface lets them send: the
\* identifier of a meeting that was created, a user, a short text
KnownIds == {v \in IdValues : isValidMeetingId(v) /\ MeetingKey(v) # 0}

KnownJoinEvents ==
    {e \in JoinEvents : e[2].meetingId \in KnownIds /\ isValidUserData(e[2].uid, e[2].name)}

KnownSendData ==
    {d \in SendData : d.meetingId \in KnownIds /\ trim(ToStr(d.text)) = Text}

VARIABLES
    store,         \* Firestore collection "meetings": meetingId -> document
    heap,          \* meeting objects of the process, by reference
    cache,         \* activeMeetings: meetingId -> reference (NoRef: no entry)
    procs,         \* the handlers in flight
    last,          \* the handler that returned last, and its result
    sock,          \* per connection: its state and socket.data
    tasks,         \* summarizer calls that have not resolved yet
    meetingEnded,  \* "meeting-ended" broadcasts per room
    now,           \* server clock
    ops,           \* requests served so far
    faults,        \* store errors so far
    deact,         \* history: what has deactivated the meeting ("end", "leave")
    summCalls,     \* history: generateMeetingSummary calls per meeting
    acked          \* history: addMessage calls that returned, per meeting

vars == <<store, heap, cache, procs, last, sock, tasks, meetingEnded, now, ops,
          faults, deact, summCalls, acked>>

\* ------------------------------------------------------------------ values
Date(t)      == [k |-> "Date", t |-> t]
Timestamp(t) == [k |-> "Timestamp", t |-> t]

\* Firestore stores a Date as a Timestamp
toTimestamp(d) == Timestamp(d.t)
\* Timestamp.toDate()
toDate(d) == Date(d.t)

NoSummary == [kind |-> "none", n |-> 0]

NoDoc ==
    [exists |-> FALSE, meetingId |-> 0, createdBy |-> 0, participants |-> <<>>,
     messages |-> <<>>, isActive |-> FALSE, maxParticipants |-> 0,
     summary |-> NoSummary]

NoObj ==
    [live |-> FALSE, meetingId |-> 0, createdBy |-> 0, participants |-> <<>>,
     messages |-> <<>>, isActive |-> FALSE, maxParticipants |-> 0,
     summary |-> NoSummary]

NoData == [meetingId |-> Undefined, uid |-> Undefined, name |-> Undefined]

NoMsg ==
    [id |-> <<0, 0>>, userId |-> 0, userName |-> 0, text |-> <<>>,
     timestamp |-> [k |-> "Date", t |-> 0]]

NoWrite == [f |-> {}, doc |-> NoDoc]
NoRead  == [ok |-> FALSE, doc |-> NoDoc]

Idle ==
    [op |-> "idle", pc |-> "done", sock |-> 0, m |-> 0, uid |-> 0, name |-> 0,
     ref |-> NoRef, rd |-> NoRead, wr |-> NoWrite, late |-> {}, miss |-> FALSE,
     msg |-> NoMsg]

NoResult ==
    [op |-> "idle", sock |-> 0, m |-> 0, uid |-> 0, res |-> "", late |-> {},
     miss |-> FALSE, cnt |-> 0, ev |-> {}]

\* -------------------------------------------------------------- sequences
SeqMap(F(_), s) == [i \in 1..Len(s) |-> F(s[i])]

RECURSIVE SeqFilter(_, _)
SeqFilter(Keep(_), s) ==
    IF s = <<>> THEN <<>>
    ELSE IF Keep(Head(s)) THEN <<Head(s)>> \o SeqFilter(Keep, Tail(s))
         ELSE SeqFilter(Keep, Tail(s))

\* Array.prototype.find: index of the first element that satisfies P, or 0
FindIndex(P(_), s) ==
    IF \E i \in 1..Len(s) : P(s[i])
    THEN CHOOSE i \in 1..Len(s) : P(s[i]) /\ \A j \in 1..(i - 1) : ~P(s[j])
    ELSE 0

\* ------------------------------------------------------- store conversions
\* what Firestore keeps of a value handed to set()/update()
encodeParticipant(p) == [p EXCEPT !.joinedAt = toTimestamp(@)]
encodeMessage(x)     == [x EXCEPT !.timestamp = toTimestamp(@)]
encodeParticipants(ps) == SeqMap(encodeParticipant, ps)
encodeMessages(ms)     == SeqMap(encodeMessage, ms)

\* Firestore rejects a document value that holds undefined
HasUndefined(ms) ==
    \E i \in 1..Len(ms) : ms[i].userId = Undefined \/ ms[i].userName = Undefined

\* ------------------------------------------------------------ object heap
Refs(c, ps) == ({c[m] : m \in MeetingIds} \cup {ps[p].ref : p \in Procs}) \ {NoRef}

\* objects nothing refers to any more are dropped
Collect(h, c, ps) == [o \in ObjIds |-> IF o \in Refs(c, ps) THEN h[o] ELSE NoObj]

\* the reference a newly built object gets
Alloc ==
    LET free == ObjIds \ Refs(cache, procs)
    IN  CHOOSE o \in free : \A o2 \in free : o <= o2

\* the values new Date() can return: the clock stands or has moved on
ClockReads == {t \in {now, now + 1} : t <= MaxClock}

\* the Socket.IO events a handler emits on the way to its result
Emits(op, res) ==
    IF op = "join"
    THEN IF res = "ok" THEN {"joined-meeting", "user-joined"}
         ELSE IF res = "Invalid" THEN {"error"}
         ELSE {"join-error"}
    ELSE IF op = "send"
    THEN IF res = "ok" THEN {"new-message"} ELSE {"error"}
    ELSE IF op = "disconnect"
    THEN IF res = "ok" THEN {"user-left"} ELSE {}
    ELSE IF op = "end"
    THEN IF res = "ok" THEN {"meeting-ended"} ELSE {}
    ELSE {}

\* what a handler that returns leaves behind: its result, and (cnt) the
\* participant count it reports, or for an end the number of messages it
\* handed to the summarizer
Result(rec, res, cnt) ==
    [op |-> rec.op, sock |-> rec.sock, m |-> rec.m, uid |-> rec.uid, res |-> res,
     late |-> rec.late, miss |-> rec.miss, cnt |-> cnt, ev |-> Emits(rec.op, res)]

\* a connection's events are served while it is connected; connections are
\* numbered in the order of their first event
Usable(s) ==
    \/ sock[s].st = "open"
    \/ sock[s].st = "new" /\ \A s2 \in Sockets : s2 < s => sock[s2].st # "new"

\* a request is taken by the first free handler slot
CanStart(p) ==
    /\ ops < MaxOps
    /\ procs[p].pc = "done"
    /\ \A q \in Procs : q < p => procs[q].pc # "done"

\* ---------------------------------------------------------- getMeetingById
\* the Meeting built from a document read (lines 158-169): createdAt and the
\* message timestamps are converted to Date, the participants are kept as read
rehydrate(doc) ==
    [live |-> TRUE, meetingId |-> doc.meetingId, createdBy |-> doc.createdBy,
     participants |-> doc.participants,
     messages |-> SeqMap(LAMBDA x : [x EXCEPT !.timestamp = toDate(@)], doc.messages),
     isActive |-> doc.isActive, maxParticipants |-> doc.maxParticipants,
     summary |-> doc.summary]

\* cache hit: the cached object itself
Hit(m) == [ref |-> cache[m], h |-> heap, c |-> cache]

\* after the store read: null when the read errored or found no document,
\* else a new object, which replaces whatever the cache holds for the id
Got(p) ==
    LET rec == procs[p]
    IN  IF rec.rd.ok /\ rec.rd.doc.exists
        THEN LET o == Alloc
             IN  [ref |-> o, h |-> [heap EXCEPT ![o] = rehydrate(rec.rd.doc)],
                  c |-> [cache EXCEPT ![rec.m] = o]]
        ELSE [ref |-> NoRef, h |-> heap, c |-> cache]

\* the handler in slot p returns
Return(p, rec, res, cnt) ==
    /\ procs' = [procs EXCEPT ![p] = Idle]
    /\ last' = Result(rec, res, cnt)

\* the handler in slot p goes on as rec, up to its next awaited call
Goto(p, rec) ==
    /\ procs' = [procs EXCEPT ![p] = rec]
    /\ last' = last

\* the handler awaits the write w of the meeting object ref
Await(rec, ref, w) ==
    [rec EXCEPT !.pc = "writing", !.ref = ref, !.rd = NoRead, !.wr = w]

\* ------------------------------------------------------------------- store
\* DocumentReference.set replaces the document, update changes the fields named
ApplyWrite(d, w) ==
    IF "*" \in w.f THEN w.doc
    ELSE [d EXCEPT
            !.participants = IF "participants" \in w.f THEN w.doc.participants ELSE @,
            !.messages     = IF "messages" \in w.f THEN w.doc.messages ELSE @,
            !.isActive     = IF "isActive" \in w.f THEN w.doc.isActive ELSE @,
            !.summary      = IF "summary" \in w.f THEN w.doc.summary ELSE @]

\* update fails on a document that does not exist
WriteOk(d, w) == "*" \in w.f \/ d.exists

ReadPc(pc) == IF pc = "reading" THEN "fetched" ELSE "gp_fetched"

\* the store answers a pending document read
StoreRead(p) ==
    /\ procs[p].pc \in {"reading", "gp_reading"}
    /\ procs' = [procs EXCEPT ![p].pc = ReadPc(@),
                              ![p].rd = [ok |-> TRUE, doc |-> store[procs[p].m]]]
    /\ UNCHANGED <<store, heap, cache, last, sock, tasks, meetingEnded, now, ops,
                   faults, deact, summCalls, acked>>

\* the pending document read errors
StoreReadError(p) ==
    /\ procs[p].pc \in {"reading", "gp_reading"}
    /\ faults < MaxFaults
    /\ faults' = faults + 1
    /\ procs' = [procs EXCEPT ![p].pc = ReadPc(@), ![p].rd = NoRead]
    /\ UNCHANGED <<store, heap, cache, last, sock, tasks, meetingEnded, now, ops,
                   deact, summCalls, acked>>

\* the store commits a pending write
StoreWrite(p) ==
    /\ procs[p].pc = "writing"
    /\ WriteOk(store[procs[p].m], procs[p].wr)
    /\ store' = [store EXCEPT ![procs[p].m] = ApplyWrite(@, procs[p].wr)]
    /\ procs' = [procs EXCEPT ![p].pc = "written"]
    /\ UNCHANGED <<heap, cache, last, sock, tasks, meetingEnded, now, ops, faults,
                   deact, summCalls, acked>>

\* the pending write errors
StoreWriteError(p) ==
    /\ procs[p].pc = "writing"
    /\ ~WriteOk(store[procs[p].m], procs[p].wr) \/ faults < MaxFaults
    /\ faults' = IF WriteOk(store[procs[p].m], procs[p].wr) THEN faults + 1 ELSE faults
    /\ procs' = [procs EXCEPT ![p].pc = "failed"]
    /\ UNCHANGED <<store, heap, cache, last, sock, tasks, meetingEnded, now, ops,
                   deact, summCalls, acked>>

\* ----------------------------------------------------------- createMeeting
NewMeeting(id, by) ==
    [live |-> TRUE, meetingId |-> id, createdBy |-> by, participants |-> <<>>,
     messages |-> <<>>, isActive |-> TRUE, maxParticipants |-> MAX_PARTICIPANTS,
     summary |-> NoSummary]

\* the document Firestore keeps of a meeting object
DocOf(o) ==
    [exists |-> TRUE, meetingId |-> o.meetingId, createdBy |-> o.createdBy,
     participants |-> encodeParticipants(o.participants),
     messages |-> encodeMessages(o.messages), isActive |-> o.isActive,
     maxParticipants |-> o.maxParticipants, summary |-> o.summary]

\* the fields named of the object o, as update() sends them
UpdateOf(fields, o) == [f |-> fields, doc |-> DocOf(o)]

\* generateMeetingId and the lookup of the drawn identifier: a cached
\* identifier is taken and another one is drawn, any other is read from the store
Generate(p, rec) ==
    \E id \in MeetingIds :
        Goto(p, IF cache[id] # NoRef THEN [rec EXCEPT !.pc = "gen"]
                ELSE [rec EXCEPT !.pc = "reading", !.m = id])

\* POST /api/meetings/create
CreateStart(p, by) ==
    /\ CanStart(p)
    /\ ops' = ops + 1
    /\ Generate(p, [Idle EXCEPT !.op = "create", !.uid = by])
    /\ UNCHANGED <<store, heap, cache, sock, tasks, meetingEnded, now, faults,
                   deact, summCalls, acked>>

\* the identifier drawn was taken: another one is drawn
CreateRetry(p) ==
    /\ procs[p].op = "create" /\ procs[p].pc = "gen"
    /\ Generate(p, procs[p])
    /\ UNCHANGED <<store, heap, cache, sock, tasks, meetingEnded, now, ops,
                   faults, deact, summCalls, acked>>

\* the collision check returns: an existing meeting is cached and another
\* identifier is drawn, otherwise the new meeting is built and written
CreateFetched(p) ==
    /\ procs[p].op = "create" /\ procs[p].pc = "fetched"
    /\ LET rec == procs[p]
           g   == Got(p)
       IN  IF g.ref # NoRef
           THEN /\ Goto(p, [rec EXCEPT !.pc = "gen", !.rd = NoRead])
                /\ cache' = g.c
                /\ heap' = Collect(g.h, cache', procs')
           ELSE LET o == Alloc
                    m == NewMeeting(rec.m, rec.uid)
                IN  /\ Goto(p, Await(rec, o, UpdateOf({"*"}, m)))
                    /\ cache' = cache
                    /\ heap' = Collect([heap EXCEPT ![o] = m], cache', procs')
    /\ UNCHANGED <<store, sock, tasks, meetingEnded, now, ops, faults, deact,
                   summCalls, acked>>

\* set() resolved: the meeting is cached and returned (201)
CreateWritten(p) ==
    /\ procs[p].op = "create" /\ procs[p].pc = "written"
    /\ cache' = [cache EXCEPT ![procs[p].m] = procs[p].ref]
    /\ Return(p, procs[p], "ok", 0)
    /\ heap' = Collect(heap, cache', procs')
    /\ UNCHANGED <<store, sock, tasks, meetingEnded, now, ops, faults, deact,
                   summCalls, acked>>

\* set() rejected: "Failed to create meeting" (500)
CreateFailed(p) ==
    /\ procs[p].op = "create" /\ procs[p].pc = "failed"
    /\ Return(p, procs[p], "Failed", 0)
    /\ heap' = Collect(heap, cache, procs')
    /\ UNCHANGED <<store, cache, sock, tasks, meetingEnded, now, ops, faults,
                   deact, summCalls, acked>>

\* ------------------------------------------------------------- joinMeeting
\* the lookup of the joining user compares the wrong field and finds nobody
existingNobody(o, uid) == FindIndex(LAMBDA q : q.uid = Undefined, o.participants)

\* meeting.participants.find((p) => p.uid === data.uid): its index, 0 if none
existingParticipant(o, uid) == FindIndex(LAMBDA q : q.uid = uid, o.participants)

\* the limit check off by one: a meeting at the limit still admits
IsFullOffByOne(o) == Len(o.participants) > o.maxParticipants

\* the participant limit is reached
IsFull(o) == Len(o.participants) >= o.maxParticipants

\* the reconnect replaces the display name along with the socket id
ReconnectRenames(o, i, s) ==
    [o EXCEPT !.participants[i].socketId = s, !.participants[i].name = NameOf(s)]

\* a user who is in the meeting reconnects: the socket id is replaced
Reconnect(o, i, s) == [o EXCEPT !.participants[i].socketId = s]

\* a new participant is pushed
Admit(o, uid, name, s, t) ==
    [o EXCEPT !.participants =
        Append(@, [uid |-> uid, name |-> name, socketId |-> s, joinedAt |-> Date(t)])]

\* joinMeeting from the meeting lookup on (lines 245-284), g the lookup's result
JoinBody(p, rec, g) ==
    LET o == g.h[g.ref]
        i == existingParticipant(o, rec.uid)
    IN  IF g.ref = NoRef
        THEN /\ Return(p, rec, "NotFound", 0)
             /\ cache' = g.c
             /\ heap' = Collect(g.h, cache', procs')
             /\ now' = now
        ELSE IF ~o.isActive
        THEN /\ Return(p, rec, "Inactive", 0)
             /\ cache' = g.c
             /\ heap' = Collect(g.h, cache', procs')
             /\ now' = now
        ELSE IF i # 0
        THEN LET o2 == Reconnect(o, i, rec.sock)
             IN  /\ Goto(p, Await(rec, g.ref, UpdateOf({"participants"}, o2)))
                 /\ cache' = g.c
                 /\ heap' = Collect([g.h EXCEPT ![g.ref] = o2], cache', procs')
                 /\ now' = now
        ELSE IF IsFull(o)
        THEN /\ Return(p, rec, "Full", 0)
             /\ cache' = g.c
             /\ heap' = Collect(g.h, cache', procs')
             /\ now' = now
        ELSE \E t \in ClockReads :
               LET o2 == Admit(o, rec.uid, rec.name, rec.sock, t)
               IN  /\ Goto(p, Await(rec, g.ref, UpdateOf({"participants"}, o2)))
                   /\ cache' = g.c
                   /\ heap' = Collect([g.h EXCEPT ![g.ref] = o2], cache', procs')
                   /\ now' = t

\* a request that is answered before any awaited call
Reject(p, rec, res) ==
    /\ CanStart(p)
    /\ ops' = ops + 1
    /\ Return(p, rec, res, 0)
    /\ UNCHANGED <<store, heap, cache, tasks, meetingEnded, faults, deact, summCalls,
                   acked>>

\* "join-meeting" with valid data, from a connected socket
JoinStart(p, s, m, uid) ==
    /\ CanStart(p)
    /\ Usable(s)
    /\ ops' = ops + 1
    /\ sock' = [sock EXCEPT ![s].st = "open"]
    /\ LET rec == [Idle EXCEPT !.op = "join", !.sock = s, !.m = m, !.uid = uid,
                               !.name = NameOf(s), !.late = deact[m],
                               !.miss = cache[m] = NoRef]
       IN  IF cache[m] # NoRef
           THEN JoinBody(p, rec, Hit(m))
           ELSE /\ Goto(p, [rec EXCEPT !.pc = "reading"])
                /\ UNCHANGED <<heap, cache, now>>
    /\ UNCHANGED <<store, tasks, meetingEnded, faults, deact, summCalls, acked>>

JoinFetched(p) ==
    /\ procs[p].op = "join" /\ procs[p].pc = "fetched"
    /\ JoinBody(p, procs[p], Got(p))
    /\ UNCHANGED <<store, sock, tasks, meetingEnded, ops, faults, deact, summCalls, acked>>

\* "join-meeting": the data is validated first (lines 572-575).  An identifier
\* generateMeetingId never yields names no document: joinMeeting finds none.
JoinMeetingEvent(p, s, data) ==
    LET valid == isValidMeetingId(data.meetingId) /\ isValidUserData(data.uid, data.name)
        m     == MeetingKey(data.meetingId)
    IN  /\ CanStart(p)
        /\ Usable(s)
        /\ IF valid /\ m # 0
           THEN JoinStart(p, s, m, UidKey(data.uid))
           ELSE /\ sock' = [sock EXCEPT ![s].st = "open"]
                /\ Reject(p, [Idle EXCEPT !.op = "join", !.sock = s],
                          IF valid THEN "NotFound" ELSE "Invalid")
                /\ now' = now

\* update() resolved: the meeting is cached again and returned; the handler
\* joins the room and records the meeting in socket.data (lines 286-596)
JoinWritten(p) ==
    /\ procs[p].op = "join" /\ procs[p].pc = "written"
    /\ cache' = [cache EXCEPT ![procs[p].m] = procs[p].ref]
    /\ Return(p, procs[p], "ok", Len(heap[procs[p].ref].participants))
    /\ heap' = Collect(heap, cache', procs')
    /\ sock' = [sock EXCEPT ![procs[p].sock].data =
                   [meetingId |-> procs[p].m, uid |-> procs[p].uid,
                    name |-> procs[p].name]]
    /\ UNCHANGED <<store, tasks, meetingEnded, now, ops, faults, deact, summCalls, acked>>

\* update() rejected: "Failed to join meeting"
JoinFailed(p) ==
    /\ procs[p].op = "join" /\ procs[p].pc = "failed"
    /\ Return(p, procs[p], "Failed", 0)
    /\ heap' = Collect(heap, cache, procs')
    /\ UNCHANGED <<store, cache, sock, tasks, meetingEnded, now, ops, faults,
                   deact, summCalls, acked>>

\* ---------------------------------------------------------- summarization
\* generateMeetingSummary(messages) is started when the meeting has messages;
\* it formats the transcript at once and resolves later
Triggered(o) == o.messages # <<>>

TasksAfter(m, o) ==
    IF Triggered(o) THEN Append(tasks, [m |-> m, n |-> Len(o.messages)]) ELSE tasks

CallsAfter(m, o) ==
    IF Triggered(o) THEN [summCalls EXCEPT ![m] = @ + 1] ELSE summCalls

\* ---------------------------------------------------------- getParticipants
\* getParticipants(meetingId) from the lookup on, and the end of the handler
\* that called it
CountBody(p, rec, g) ==
    /\ Return(p, rec, "ok", IF g.ref = NoRef THEN 0 ELSE Len(g.h[g.ref].participants))
    /\ cache' = g.c
    /\ heap' = Collect(g.h, cache', procs')

\* the call of getParticipants: answered from the cache, or a store read
Count(p, rec) ==
    IF cache[rec.m] # NoRef
    THEN CountBody(p, rec, Hit(rec.m))
    ELSE /\ Goto(p, [rec EXCEPT !.pc = "gp_reading", !.ref = NoRef, !.rd = NoRead,
                                !.wr = NoWrite])
         /\ cache' = cache
         /\ heap' = Collect(heap, cache', procs')

CountFetched(p) ==
    /\ procs[p].pc = "gp_fetched"
    /\ CountBody(p, procs[p], Got(p))
    /\ UNCHANGED <<store, sock, tasks, meetingEnded, now, ops, faults, deact,
                   summCalls, acked>>

\* GET /api/meetings/:meetingId with a valid identifier
GetStart(p, m) ==
    /\ CanStart(p)
    /\ ops' = ops + 1
    /\ Count(p, [Idle EXCEPT !.op = "get", !.m = m])
    /\ UNCHANGED <<store, sock, tasks, meetingEnded, now, faults, deact, summCalls, acked>>

\* GET /api/meetings/:meetingId: 400 for an invalid identifier (lines 529-531);
\* for one that names no document getParticipants gives the empty list
GetMeetingEvent(p, v) ==
    LET m == MeetingKey(v)
    IN  /\ CanStart(p)
        /\ IF isValidMeetingId(v) /\ m # 0
           THEN GetStart(p, m)
           ELSE /\ Reject(p, [Idle EXCEPT !.op = "get"],
                          IF isValidMeetingId(v) THEN "ok" ELSE "Invalid")
                /\ UNCHANGED <<sock, now>>

\* ------------------------------------------------------------ leaveMeeting
\* leaveMeeting from the meeting lookup on (lines 311-344); a null meeting
\* returns at once and the disconnect handler goes on to getParticipants
LeaveBody(p, rec, g) ==
    LET o     == g.h[g.ref]
        left  == SeqFilter(LAMBDA q : q.socketId # rec.sock, o.participants)
        empty == left = <<>>
        o2    == [o EXCEPT !.participants = left,
                           !.isActive = IF empty THEN FALSE ELSE @]
    IN  IF g.ref = NoRef
        THEN /\ Count(p, rec)
             /\ UNCHANGED <<tasks, deact, summCalls>>
        ELSE /\ Goto(p, Await(rec, g.ref, UpdateOf({"participants", "isActive"}, o2)))
             /\ cache' = IF empty THEN [g.c EXCEPT ![rec.m] = NoRef] ELSE g.c
             /\ heap' = Collect([g.h EXCEPT ![g.ref] = o2], cache', procs')
             /\ tasks' = IF empty THEN TasksAfter(rec.m, o2) ELSE tasks
             /\ summCalls' = IF empty THEN CallsAfter(rec.m, o2) ELSE summCalls
             /\ deact' = IF empty THEN [deact EXCEPT ![rec.m] = @ \cup {"leave"}] ELSE deact

\* "disconnect": the connection is gone; a socket that joined a meeting leaves it
DisconnectStart(p, s) ==
    /\ CanStart(p)
    /\ Usable(s)
    /\ ops' = ops + 1
    /\ sock' = [sock EXCEPT ![s].st = "closed"]
    /\ LET rec == [Idle EXCEPT !.op = "disconnect", !.sock = s,
                               !.m = sock[s].data.meetingId,
                               !.name = sock[s].data.name]
       IN  IF rec.m = Undefined
           THEN /\ Return(p, rec, "none", 0)
                /\ UNCHANGED <<heap, cache, tasks, deact, summCalls>>
           ELSE IF cache[rec.m] # NoRef
           THEN LeaveBody(p, rec, Hit(rec.m))
           ELSE /\ Goto(p, [rec EXCEPT !.pc = "reading"])
                /\ UNCHANGED <<heap, cache, tasks, deact, summCalls>>
    /\ UNCHANGED <<store, meetingEnded, now, faults, acked>>

LeaveFetched(p) ==
    /\ procs[p].op = "disconnect" /\ procs[p].pc = "fetched"
    /\ LeaveBody(p, procs[p], Got(p))
    /\ UNCHANGED <<store, sock, meetingEnded, now, ops, faults, acked>>

\* update() resolved or rejected (the error is only logged): leaveMeeting
\* returns and the handler asks for the participants that remain
LeaveReturned(p) ==
    /\ procs[p].op = "disconnect" /\ procs[p].pc \in {"written", "failed"}
    /\ Count(p, procs[p])
    /\ UNCHANGED <<store, sock, tasks, meetingEnded, now, ops, faults, deact,
                   summCalls, acked>>

\* -------------------------------------------------------------- endMeeting
\* the ownership check lets every requester through
IsHostAnyone(o, uid) == TRUE

\* the requester is the host of the meeting
IsHost(o, uid) == o.createdBy = uid

\* endMeeting from the meeting lookup on (lines 195-223)
EndBody(p, rec, g) ==
    LET o  == g.h[g.ref]
        o2 == [o EXCEPT !.isActive = FALSE]
    IN  IF g.ref = NoRef
        THEN /\ Return(p, rec, "NotFound", 0)
             /\ cache' = g.c
             /\ heap' = Collect(g.h, cache', procs')
             /\ UNCHANGED <<tasks, deact, summCalls>>
        ELSE IF ~IsHost(o, rec.uid)
        THEN /\ Return(p, rec, "Forbidden", 0)
             /\ cache' = g.c
             /\ heap' = Collect(g.h, cache', procs')
             /\ UNCHANGED <<tasks, deact, summCalls>>
        ELSE /\ Goto(p, Await(rec, g.ref, UpdateOf({"isActive"}, o2)))
             /\ cache' = [g.c EXCEPT ![rec.m] = NoRef]
             /\ heap' = Collect([g.h EXCEPT ![g.ref] = o2], cache', procs')
             /\ tasks' = TasksAfter(rec.m, o2)
             /\ summCalls' = CallsAfter(rec.m, o2)
             /\ deact' = [deact EXCEPT ![rec.m] = @ \cup {"end"}]

\* POST /api/meetings/end
EndStart(p, m, uid) ==
    /\ CanStart(p)
    /\ ops' = ops + 1
    /\ LET rec == [Idle EXCEPT !.op = "end", !.m = m, !.uid = uid]
       IN  IF cache[m] # NoRef
           THEN EndBody(p, rec, Hit(m))
           ELSE /\ Goto(p, [rec EXCEPT !.pc = "reading"])
                /\ UNCHANGED <<heap, cache, tasks, deact, summCalls>>
    /\ UNCHANGED <<store, sock, meetingEnded, now, faults, acked>>

EndFetched(p) ==
    /\ procs[p].op = "end" /\ procs[p].pc = "fetched"
    /\ EndBody(p, procs[p], Got(p))
    /\ UNCHANGED <<store, sock, meetingEnded, now, ops, faults, acked>>

\* update() resolved: success, and "meeting-ended" goes to the room
EndWritten(p) ==
    /\ procs[p].op = "end" /\ procs[p].pc = "written"
    /\ Return(p, procs[p], "ok", Len(procs[p].wr.doc.messages))
    /\ heap' = Collect(heap, cache, procs')
    /\ meetingEnded' = [meetingEnded EXCEPT ![procs[p].m] = @ + 1]
    /\ UNCHANGED <<store, cache, sock, tasks, now, ops, faults, deact, summCalls, acked>>

\* update() rejected: "Failed to end meeting" (400)
EndFailed(p) ==
    /\ procs[p].op = "end" /\ procs[p].pc = "failed"
    /\ Return(p, procs[p], "Failed", 0)
    /\ heap' = Collect(heap, cache, procs')
    /\ UNCHANGED <<store, cache, sock, tasks, meetingEnded, now, ops, faults,
                   deact, summCalls, acked>>
\* the document is written before the message is appended: the write carries
\* the list without the new message
AddBodyUnsaved(p, rec, g) ==
    LET o  == g.h[g.ref]
        o2 == [o EXCEPT !.messages = Append(@, rec.msg)]
    IN  IF g.ref = NoRef
        THEN /\ Return(p, rec, "NotFound", 0)
             /\ cache' = g.c
             /\ heap' = Collect(g.h, cache', procs')
        ELSE /\ IF HasUndefined(o2.messages)
                THEN Return(p, rec, "Failed", 0)
                ELSE Goto(p, Await(rec, g.ref, UpdateOf({"messages"}, o)))
             /\ cache' = g.c
             /\ heap' = Collect([g.h EXCEPT ![g.ref] = o2], cache', procs')

\* -------------------------------------------------------------- addMessage
\* addMessage from the meeting lookup on (lines 366-375): update() throws at
\* once on a message that holds undefined, after the message was appended
AddBody(p, rec, g) ==
    LET o  == g.h[g.ref]
        o2 == [o EXCEPT !.messages = Append(@, rec.msg)]
    IN  IF g.ref = NoRef
        THEN /\ Return(p, rec, "NotFound", 0)
             /\ cache' = g.c
             /\ heap' = Collect(g.h, cache', procs')
        ELSE /\ IF HasUndefined(o2.messages)
                THEN Return(p, rec, "Failed", 0)
                ELSE Goto(p, Await(rec, g.ref, UpdateOf({"messages"}, o2)))
             /\ cache' = g.c
             /\ heap' = Collect([g.h EXCEPT ![g.ref] = o2], cache', procs')

\* "send-message" with a valid text, from a connected socket: the message is
\* built from socket.data, the trimmed text and the clock, then handed to
\* addMessage
SendStart(p, s, m, text) ==
    /\ CanStart(p)
    /\ Usable(s)
    /\ ops' = ops + 1
    /\ sock' = [sock EXCEPT ![s].st = "open"]
    /\ \E t \in ClockReads :
         LET msg == [id |-> <<t, sock[s].data.uid>>, userId |-> sock[s].data.uid,
                     userName |-> sock[s].data.name, text |-> text,
                     timestamp |-> Date(t)]
             rec == [Idle EXCEPT !.op = "send", !.sock = s, !.m = m,
                                 !.uid = sock[s].data.uid, !.msg = msg,
                                 !.late = deact[m], !.miss = cache[m] = NoRef]
         IN  /\ now' = t
             /\ IF cache[m] # NoRef
                THEN AddBody(p, rec, Hit(m))
                ELSE /\ Goto(p, [rec EXCEPT !.pc = "reading"])
                     /\ UNCHANGED <<heap, cache>>
    /\ UNCHANGED <<store, tasks, meetingEnded, faults, deact, summCalls, acked>>

\* "send-message": the text is validated first (lines 633-636); getMeetingById
\* gives null for an identifier that is invalid or names no document, and
\* addMessage throws
SendMessageEvent(p, s, data) ==
    LET m   == MeetingKey(data.meetingId)
        rec == [Idle EXCEPT !.op = "send", !.sock = s, !.uid = sock[s].data.uid]
    IN  /\ CanStart(p)
        /\ Usable(s)
        /\ IF ~isValidMessage(data.text)
           THEN /\ sock' = [sock EXCEPT ![s].st = "open"]
                /\ Reject(p, rec, "Invalid")
                /\ now' = now
           ELSE IF m = 0
           THEN /\ sock' = [sock EXCEPT ![s].st = "open"]
                /\ Reject(p, rec, "NotFound")
                /\ now' \in ClockReads
           ELSE SendStart(p, s, m, trim(data.text.runs))

AddFetched(p) ==
    /\ procs[p].op = "send" /\ procs[p].pc = "fetched"
    /\ AddBody(p, procs[p], Got(p))
    /\ UNCHANGED <<store, sock, tasks, meetingEnded, now, ops, faults, deact,
                   summCalls, acked>>

\* update() resolved: the meeting is cached again, "new-message" goes to the room
AddWritten(p) ==
    /\ procs[p].op = "send" /\ procs[p].pc = "written"
    /\ cache' = [cache EXCEPT ![procs[p].m] = procs[p].ref]
    /\ Return(p, procs[p], "ok", 0)
    /\ heap' = Collect(heap, cache', procs')
    /\ acked' = [acked EXCEPT ![procs[p].m] = @ + 1]
    /\ UNCHANGED <<store, sock, tasks, meetingEnded, now, ops, faults, deact,
                   summCalls>>

\* update() rejected: the error is thrown on, "Failed to send message"
AddFailed(p) ==
    /\ procs[p].op = "send" /\ procs[p].pc = "failed"
    /\ Return(p, procs[p], "Failed", 0)
    /\ heap' = Collect(heap, cache, procs')
    /\ UNCHANGED <<store, cache, sock, tasks, meetingEnded, now, ops, faults,
                   deact, summCalls, acked>>

\* ------------------------------------------------- generateMeetingSummary
RemoveAt(s, i) == SubSeq(s, 1, i - 1) \o SubSeq(s, i + 1, Len(s))

\* the summary is written with set() in place of update(): the document is
\* replaced by one that holds the summary alone
SummaryWrittenBySet(i, kind) ==
    /\ i \in 1..Len(tasks)
    /\ store[tasks[i].m].exists
    /\ store' = [store EXCEPT ![tasks[i].m] =
                    [NoDoc EXCEPT !.exists = TRUE,
                                  !.summary = [kind |-> kind, n |-> tasks[i].n]]]
    /\ tasks' = RemoveAt(tasks, i)
    /\ UNCHANGED <<heap, cache, procs, last, sock, meetingEnded, now, ops, faults,
                   deact, summCalls, acked>>

\* a summarizer call resolves, with the model's text or (kind "fallback") its
\* error string, and the summary is written to the document
SummaryWritten(i, kind) ==
    /\ i \in 1..Len(tasks)
    /\ store[tasks[i].m].exists
    /\ store' = [store EXCEPT ![tasks[i].m].summary = [kind |-> kind, n |-> tasks[i].n]]
    /\ tasks' = RemoveAt(tasks, i)
    /\ UNCHANGED <<heap, cache, procs, last, sock, meetingEnded, now, ops, faults,
                   deact, summCalls, acked>>

\* the write of the summary errors: logged, nothing else
SummaryLost(i) ==
    /\ i \in 1..Len(tasks)
    /\ faults < MaxFaults
    /\ faults' = faults + 1
    /\ tasks' = RemoveAt(tasks, i)
    /\ UNCHANGED <<store, heap, cache, procs, last, sock, meetingEnded, now, ops,
                   deact, summCalls, acked>>

\* ------------------------------------------------------------ specification
\* the server has started: nothing stored, nothing cached, nobody connected
InitFresh ==
    /\ store = [m \in MeetingIds |-> NoDoc]
    /\ heap = [o \in ObjIds |-> NoObj]
    /\ cache = [m \in MeetingIds |-> NoRef]
    /\ sock = [s \in Sockets |-> [st |-> "new", data |-> NoData]]

\* the meeting object o is cached, and stored as the handlers' writes leave it
Holding(o) ==
    /\ store = [m \in MeetingIds |-> IF m = o.meetingId THEN DocOf(o) ELSE NoDoc]
    /\ heap = [r \in ObjIds |-> IF r = 1 THEN o ELSE NoObj]
    /\ cache = [m \in MeetingIds |-> IF m = o.meetingId THEN 1 ELSE NoRef]

\* meeting 1 as createMeeting and a run of joinMeeting calls leave it: created
\* by user 1, the participants ps joined at time 0, cached and stored
Joined(ps) ==
    LET o == [NewMeeting(1, 1) EXCEPT !.participants = ps]
    IN  Holding(o)

Member(uid, s) ==
    [uid |-> uid, name |-> NameOf(s), socketId |-> s, joinedAt |-> Date(0)]

\* user 1 has created meeting 1 and joined it over connection 1
InitLive ==
    /\ Joined(<<Member(1, 1)>>)
    /\ sock = [s \in Sockets |->
                 IF s = 1
                 THEN [st |-> "open", data |-> [meetingId |-> 1, uid |-> 1,
                                                name |-> NameOf(1)]]
                 ELSE [st |-> "new", data |-> NoData]]

\* the message user 1 has sent over connection 1 at time 0
FirstMessage ==
    [id |-> <<0, 1>>, userId |-> 1, userName |-> NameOf(1), text |-> Text,
     timestamp |-> Date(0)]

\* user 11 has created meeting 1; user 1 has joined it over connection 1, sent
\* a message and joined again over connection 2, which has disconnected: the
\* meeting is empty, inactive and out of the cache, its summary is written,
\* and connection 1 still carries the meeting in socket.data
InitGone ==
    /\ store = [m \in MeetingIds |->
                  IF m = 1
                  THEN DocOf([NewMeeting(1, 11) EXCEPT
                                 !.messages = <<FirstMessage>>, !.isActive = FALSE,
                                 !.summary = [kind |-> "ai", n |-> 1]])
                  ELSE NoDoc]
    /\ heap = [r \in ObjIds |-> NoObj]
    /\ cache = [m \in MeetingIds |-> NoRef]
    /\ sock = [s \in Sockets |->
                 IF s = 1
                 THEN [st |-> "open", data |-> [meetingId |-> 1, uid |-> 1,
                                                name |-> NameOf(1)]]
                 ELSE [st |-> "closed", data |-> [meetingId |-> 1, uid |-> 1,
                                                  name |-> NameOf(s)]]]

\* user 1 has created meeting 1, joined it over connection 1 and sent a
\* message; user 11 has joined too; connection 2 has come and gone
InitPair ==
    /\ Holding([NewMeeting(1, 1) EXCEPT
                   !.participants = <<Member(1, 1), Member(11, 11)>>,
                   !.messages = <<FirstMessage>>])
    /\ sock = [s \in Sockets |->
                 IF s = 1
                 THEN [st |-> "open", data |-> [meetingId |-> 1, uid |-> 1,
                                                name |-> NameOf(1)]]
                 ELSE [st |-> "closed", data |-> NoData]]

\* connections and users other than the ones that act here: user 10 + i has
\* joined over connection 10 + i and stays
Others(n) == [i \in 1..n |-> Member(10 + i, 10 + i)]

\* meeting 1 is one participant short of full
InitBusy ==
    /\ Joined(Others(MAX_PARTICIPANTS - 1))
    /\ sock = [s \in Sockets |-> [st |-> "new", data |-> NoData]]

Init ==
    /\ InitFresh \/ InitLive \/ InitGone \/ InitBusy \/ InitPair
    /\ procs = [p \in Procs |-> Idle]
    /\ last = NoResult
    /\ tasks = <<>>
    /\ meetingEnded = [m \in MeetingIds |-> 0]
    /\ now = 0
    /\ ops = 0
    /\ faults = 0
    /\ deact = [m \in MeetingIds |->
                  IF store[m].exists /\ ~store[m].isActive THEN {"leave"} ELSE {}]
    /\ summCalls = [m \in MeetingIds |-> store[m].summary.n]
    /\ acked = [m \in MeetingIds |-> Len(store[m].messages)]

\* the steps that take no client input, or none that is validated
Internal ==
    \/ \E p \in Procs, by \in Uids : CreateStart(p, by)
    \/ \E p \in Procs : CreateRetry(p)
    \/ \E p \in Procs : CreateFetched(p)
    \/ \E p \in Procs : CreateWritten(p)
    \/ \E p \in Procs : CreateFailed(p)
    \/ \E p \in Procs : JoinFetched(p)
    \/ \E p \in Procs : JoinWritten(p)
    \/ \E p \in Procs : JoinFailed(p)
    \/ \E p \in Procs, s \in Sockets : DisconnectStart(p, s)
    \/ \E p \in Procs : LeaveFetched(p)
    \/ \E p \in Procs : LeaveReturned(p)
    \/ \E p \in Procs, m \in MeetingIds, uid \in Uids : EndStart(p, m, uid)
    \/ \E p \in Procs : EndFetched(p)
    \/ \E p \in Procs : EndWritten(p)
    \/ \E p \in Procs : EndFailed(p)
    \/ \E p \in Procs : AddFetched(p)
    \/ \E p \in Procs : AddWritten(p)
    \/ \E p \in Procs : AddFailed(p)
    \/ \E p \in Procs : CountFetched(p)
    \/ \E p \in Procs : StoreRead(p)
    \/ \E p \in Procs : StoreReadError(p)
    \/ \E p \in Procs : StoreWrite(p)
    \/ \E p \in Procs : StoreWriteError(p)
    \/ \E i \in 1..(2 * NumProcs), kind \in {"ai", "fallback"} : SummaryWritten(i, kind)
    \/ \E i \in 1..(2 * NumProcs) : SummaryLost(i)

\* clients that send what the user interface lets them send
Next ==
    \/ \E p \in Procs, e \in KnownJoinEvents : JoinMeetingEvent(p, e[1], e[2])
    \/ \E p \in Procs, s \in Sockets, data \in KnownSendData : SendMessageEvent(p, s, data)
    \/ \E p \in Procs, v \in KnownIds : GetMeetingEvent(p, v)
    \/ Internal

Spec == Init /\ [][Next]_vars

\* clients that send anything, on a server that starts empty or with one
\* meeting of two participants
NextAnyInput ==
    \/ \E p \in Procs, e \in JoinEvents : JoinMeetingEvent(p, e[1], e[2])
    \/ \E p \in Procs, s \in Sockets, data \in SendData : SendMessageEvent(p, s, data)
    \/ \E p \in Procs, v \in IdValues : GetMeetingEvent(p, v)
    \/ Internal

InitAnyInput == Init /\ (InitFresh \/ InitPair)

SpecAnyInput == InitAnyInput /\ [][NextAnyInput]_vars


\* ------------------------------------------------------------------ claims
\* the meeting objects of the process, and the documents of the store
Objects   == {heap[o] : o \in {r \in ObjIds : heap[r].live}}
Documents == {store[m] : m \in {n \in MeetingIds : store[n].exists}}

\* C1: in every reachable state every meeting, cached object or stored
\* document, has at most maxParticipants participants, and maxParticipants is 10
C1_ParticipantsBounded ==
    /\ \A o \in Objects :
          o.maxParticipants = MAX_PARTICIPANTS /\ Len(o.participants) <= o.maxParticipants
    /\ \A d \in Documents :
          d.maxParticipants = MAX_PARTICIPANTS /\ Len(d.participants) <= d.maxParticipants

\* a join was refused as Full on a meeting that holds 10 participants in the
\* cache and in the store
C1_Witness ==
    /\ last.op = "join" /\ last.res = "Full"
    /\ cache[last.m] # NoRef
    /\ Len(heap[cache[last.m]].participants) = MAX_PARTICIPANTS
    /\ Len(store[last.m].participants) = MAX_PARTICIPANTS

\* no handler is in flight
Quiescent == \A p \in Procs : procs[p].pc = "done"

\* C2: a join that starts after the meeting was deactivated (by end or by the
\* last participant leaving) is refused as Inactive, also while the
\* deactivating handler is still awaiting its write; no store call errors here
C2_LateJoinRefused ==
    (faults = 0 /\ last.op = "join" /\ last.late # {}) => last.res = "Inactive"

\* C3: addMessage for a user who joined, on a meeting that was deactivated and
\* is not in the cache, fails with NotFound; no store call errors here
C3_LateMessageRefused ==
    (faults = 0 /\ last.op = "send" /\ last.uid # Undefined /\ last.late # {}
        /\ last.miss)
    => last.res = "NotFound"

\* C4: a leave that empties the participant list writes isActive = false, and
\* every join that starts once such a leave has deactivated the meeting is
\* refused as Inactive; no store call errors here
C4_UnjoinableAfterLastLeave ==
    /\ \A p \in Procs :
          (procs[p].op = "disconnect" /\ procs[p].pc = "writing"
              /\ procs[p].wr.doc.participants = <<>>)
          => ~procs[p].wr.doc.isActive
    /\ (faults = 0 /\ last.op = "join" /\ "leave" \in last.late)
          => last.res = "Inactive"

\* C5: a consequence of serialized mutations: once every handler has returned
\* and no store call has errored, the stored message list holds every message
\* whose addMessage returned
C5_NoLostMessage ==
    (Quiescent /\ faults = 0)
    => \A m \in MeetingIds : acked[m] <= Len(store[m].messages)

\* C6: the set() of a create never replaces a document that exists
C6_CreateNeverOverwrites ==
    [][\A p \in Procs :
          (procs[p].op = "create" /\ procs[p].pc = "writing"
              /\ procs'[p].pc = "written")
          => ~store[procs[p].m].exists]_vars

\* the user identifiers of a participant list
UidsOf(ps) == {ps[i].uid : i \in 1..Len(ps)}
NoDuplicateUid(ps) == \A i, j \in 1..Len(ps) : ps[i].uid = ps[j].uid => i = j

JoinLooksUp(p, s, m, uid, g) ==
    \/ JoinStart(p, s, m, uid) /\ cache[m] # NoRef /\ g = Hit(m)
    \/ /\ JoinFetched(p)
       /\ procs[p].sock = s /\ procs[p].m = m /\ procs[p].uid = uid
       /\ g = Got(p) /\ g.ref # NoRef

LookupResults == {Hit(m) : m \in MeetingIds} \cup {Got(p) : p \in Procs}

\* C8: a join by a user who is not in an active meeting that holds
\* maxParticipants participants returns Full and leaves the meeting object,
\* the cache entry and the store as they were
C8_FullRefused ==
    [][\A p \in Procs, s \in Sockets, m \in MeetingIds, uid \in Uids :
        \A g \in LookupResults :
          (/\ JoinLooksUp(p, s, m, uid, g)
           /\ g.h[g.ref].isActive
           /\ uid \notin UidsOf(g.h[g.ref].participants)
           /\ Len(g.h[g.ref].participants) >= g.h[g.ref].maxParticipants)
          => /\ last'.op = "join" /\ last'.sock = s /\ last'.uid = uid
             /\ last'.res = "Full"
             /\ procs'[p] = Idle
             /\ heap'[g.ref] = g.h[g.ref]
             /\ cache'[m] = g.ref
             /\ store' = store]_vars

\* an eleventh user was refused as Full on an active meeting of ten others
C8_Witness ==
    /\ last.op = "join" /\ last.res = "Full"
    /\ store[last.m].isActive
    /\ Len(store[last.m].participants) = MAX_PARTICIPANTS
    /\ last.uid \notin UidsOf(store[last.m].participants)
    /\ cache[last.m] # NoRef
    /\ heap[cache[last.m]].participants
          = SeqMap(LAMBDA q : [q EXCEPT !.joinedAt = toDate(@)], store[last.m].participants)

\* the object o with the socket id of user uid replaced by s, nothing else
WithSession(o, uid, s) ==
    [o EXCEPT !.participants =
        [j \in 1..Len(@) |-> IF @[j].uid = uid THEN [@[j] EXCEPT !.socketId = s]
                             ELSE @[j]]]

\* C9: a join by a user who is in the active meeting is accepted, also when
\* the meeting is full: it replaces the socket id of that user's entry and
\* changes nothing else of the meeting object, it sends the participant list
\* alone to the store, and it returns success when that write is acknowledged
C9_RejoinOnlySession ==
    [][/\ \A p \in Procs, s \in Sockets, m \in MeetingIds, uid \in Uids :
          \A g \in LookupResults :
            (/\ JoinLooksUp(p, s, m, uid, g)
             /\ g.h[g.ref].isActive
             /\ uid \in UidsOf(g.h[g.ref].participants))
            => /\ procs'[p].op = "join" /\ procs'[p].pc = "writing"
               /\ procs'[p].ref = g.ref
               /\ heap'[g.ref] = WithSession(g.h[g.ref], uid, s)
               /\ procs'[p].wr.f = {"participants"}
               /\ procs'[p].wr.doc.participants
                     = encodeParticipants(heap'[g.ref].participants)
               /\ cache'[m] = g.ref
               /\ store' = store
       /\ \A p \in Procs :
            (procs[p].op = "join" /\ procs[p].pc = "written" /\ procs'[p] = Idle)
            => last'.res = "ok"]_vars

\* a user of a full meeting has joined again over another connection
C9_Witness ==
    /\ last.op = "join" /\ last.res = "ok"
    /\ last.cnt = MAX_PARTICIPANTS
    /\ Len(store[last.m].participants) = MAX_PARTICIPANTS
    /\ \E s \in Sockets : s # last.sock /\ sock[s].data.uid = last.uid
    /\ \E i \in 1..Len(store[last.m].participants) :
          /\ store[last.m].participants[i].uid = last.uid
          /\ store[last.m].participants[i].socketId = last.sock
          /\ store[last.m].participants[i].name # NameOf(last.sock)

\* the meeting an end handler works on in this step, when its lookup found one
EndLooksUp(p, m, uid, g) ==
    \/ EndStart(p, m, uid) /\ cache[m] # NoRef /\ g = Hit(m)
    \/ /\ EndFetched(p)
       /\ procs[p].m = m /\ procs[p].uid = uid
       /\ g = Got(p) /\ g.ref # NoRef

\* C10: an end requested by a user who did not create the meeting returns
\* Forbidden and leaves the meeting object, the cache entry and the store as
\* they were; no summarizer call is started, nothing is broadcast
C10_ForbiddenChangesNothing ==
    [][\A p \in Procs, m \in MeetingIds, uid \in Uids :
        \A g \in LookupResults :
          (EndLooksUp(p, m, uid, g) /\ g.h[g.ref].createdBy # uid)
          => /\ last'.op = "end" /\ last'.uid = uid /\ last'.res = "Forbidden"
             /\ procs'[p] = Idle
             /\ heap'[g.ref] = g.h[g.ref]
             /\ cache'[m] = g.ref
             /\ store' = store
             /\ tasks' = tasks
             /\ summCalls' = summCalls
             /\ meetingEnded' = meetingEnded
             /\ deact' = deact]_vars

\* an end by another user than the creator was refused, and the meeting is
\* active, cached and holds its participants
C10_Witness ==
    /\ last.op = "end" /\ last.res = "Forbidden"
    /\ store[last.m].isActive /\ store[last.m].createdBy # last.uid
    /\ store[last.m].participants # <<>>
    /\ cache[last.m] # NoRef /\ heap[cache[last.m]].isActive
    /\ meetingEnded[last.m] = 0 /\ tasks = <<>>

\* C11: "meeting-ended" goes to a room exactly when an end by the creator
\* returns success, one broadcast per successful end and none for any other
\* handler or result, and at the broadcast the stored document has
\* isActive = false (when no store call has errored)
C11_EndedBroadcastOnSuccess ==
    [][/\ \A p \in Procs :
            (procs[p].op = "end" /\ procs[p].pc = "written" /\ procs'[p] = Idle)
            => /\ last'.res = "ok"
               /\ meetingEnded' = [meetingEnded EXCEPT ![procs[p].m] = @ + 1]
               /\ heap[procs[p].ref].createdBy = procs[p].uid
               /\ faults = 0 => ~store[procs[p].m].isActive
       /\ meetingEnded' # meetingEnded
            => \E p \in Procs :
                  procs[p].op = "end" /\ procs[p].pc = "written" /\ procs'[p] = Idle]_vars

\* the meeting leaveMeeting works on in this step for the connection s, g.ref
\* being NoRef when the lookup found none
LeaveLooksUp(p, s, g) ==
    \/ /\ DisconnectStart(p, s)
       /\ sock[s].data.meetingId # Undefined
       /\ cache[sock[s].data.meetingId] # NoRef
       /\ g = Hit(sock[s].data.meetingId)
    \/ LeaveFetched(p) /\ procs[p].sock = s /\ g = Got(p)

\* C12: leaveMeeting changes nothing when the meeting is absent or none of its
\* participants has the session id: the participant list and isActive are as
\* before, in the object and in what is written, and no summarizer call is
\* started, also when the participant list is empty already
C12_LeaveOfStrangerNoOp ==
    [][\A p \in Procs, s \in Sockets : \A g \in LookupResults :
          (/\ LeaveLooksUp(p, s, g)
           /\ g.ref # NoRef => \A i \in 1..Len(g.h[g.ref].participants) :
                                  g.h[g.ref].participants[i].socketId # s)
          => /\ store' = store
             /\ tasks' = tasks
             /\ summCalls' = summCalls
             /\ g.ref # NoRef
                  => /\ heap'[g.ref].participants = g.h[g.ref].participants
                     /\ heap'[g.ref].isActive = g.h[g.ref].isActive
                     /\ procs'[p].wr.doc.participants
                           = encodeParticipants(g.h[g.ref].participants)
                     /\ procs'[p].wr.doc.isActive = g.h[g.ref].isActive]_vars

\* nothing is pending: no handler in flight, no summarizer call unresolved
Settled == Quiescent /\ tasks = <<>>

\* C13: when the creator's end of a meeting with at least one message has
\* returned success, no store call has errored and every summarizer call has
\* resolved and written, the stored document has isActive = false and a summary
C13_EndedGetsSummary ==
    (Settled /\ faults = 0 /\ last.op = "end" /\ last.res = "ok" /\ last.cnt > 0)
    => /\ ~store[last.m].isActive
       /\ store[last.m].summary # NoSummary

\* the document d without its summary
SummaryApart(d) == [d EXCEPT !.summary = NoSummary]

\* C14: the summarizer neither blocks nor fails the end or leave that started
\* it.  The handler that starts a summarizer call issues its own write of
\* isActive = false in the same step; the end whose write is acknowledged
\* returns success, pending call or not; and a summarizer call that resolves,
\* with the model's text, the fallback or a failed write, touches no handler,
\* no result, no meeting object and nothing of a document but its summary
C14_SummarizerApart ==
    [][/\ \A p \in Procs :
            (summCalls' # summCalls /\ procs'[p] # procs[p])
            => /\ procs'[p].op \in {"end", "disconnect"}
               /\ procs'[p].pc = "writing"
               /\ "isActive" \in procs'[p].wr.f
               /\ "summary" \notin procs'[p].wr.f
               /\ ~procs'[p].wr.doc.isActive
               /\ Len(tasks') = Len(tasks) + 1
       /\ \A p \in Procs :
            (procs[p].op = "end" /\ procs[p].pc = "written" /\ procs'[p] = Idle)
            => last'.res = "ok"
       /\ Len(tasks') < Len(tasks)
            => /\ procs' = procs /\ last' = last /\ heap' = heap /\ cache' = cache
               /\ meetingEnded' = meetingEnded
               /\ \A m \in MeetingIds : SummaryApart(store'[m]) = SummaryApart(store[m])
      ]_vars

\* an end has returned success while the summarizer call it started is pending
C14_Witness ==
    /\ last.op = "end" /\ last.res = "ok" /\ last.cnt > 0
    /\ \E i \in 1..Len(tasks) : tasks[i].m = last.m
    /\ store[last.m].summary = NoSummary
    /\ ~store[last.m].isActive

\* C15: a stored document that has a summary has isActive = false, and the
\* summary was made from at least one message
C15_SummaryOnlyInactive ==
    \A d \in Documents :
        d.summary # NoSummary => (~d.isActive /\ d.summary.n > 0)

\* what the specification calls valid input, stated on the characters alone
SixAsciiDigits(v) ==
    /\ v.type = "string"
    /\ StrLen(v.runs) = 6
    /\ \A i \in 1..6 : CharAt(v.runs, i) \in Digit

BlankField(v) ==
    \/ v.type # "string"
    \/ \A i \in 1..Len(v.runs) : v.runs[i].c \in WhiteSpace

TooLong(v) == v.type = "string" /\ StrLen(v.runs) > 1000

InvalidJoinEvents ==
    {e \in JoinEvents : \/ ~SixAsciiDigits(e[2].meetingId)
                        \/ BlankField(e[2].uid)
                        \/ BlankField(e[2].name)}

InvalidSendData == {d \in SendData : BlankField(d.text) \/ TooLong(d.text)}

\* the step is slot p taking a request op of connection s: the handler is in
\* flight or has returned
Begins(p, s, op) ==
    /\ CanStart(p)
    /\ ops' = ops + 1
    /\ \/ procs'[p].op = op /\ procs'[p].sock = s
       \/ procs'[p] = Idle /\ last'.op = op /\ last'.sock = s

RoomEvents == {"user-joined", "user-left", "new-message", "meeting-ended"}

\* the step neither reads nor writes the store, changes no meeting object and
\* no cache entry, and broadcasts nothing to a room: the handler in slot p
\* returns without having awaited anything
Untouched(p) ==
    /\ procs' = procs
    /\ procs[p] = Idle
    /\ store' = store
    /\ heap' = heap
    /\ cache' = cache
    /\ tasks' = tasks
    /\ faults' = faults
    /\ meetingEnded' = meetingEnded
    /\ \A s \in Sockets : sock'[s].data = sock[s].data
    /\ last'.ev \cap RoomEvents = {}

\* C16: a join-meeting whose meeting identifier is not exactly 6 digits or whose
\* uid or name is empty or whitespace only, and a send-message whose text is
\* not a string, blank or longer than 1000 characters, is rejected as invalid
\* with no store read or write, no change of a meeting object or a cache entry
\* and no room broadcast
C16_InvalidInputTouchesNothing ==
    [][ /\ \A p \in Procs, e \in InvalidJoinEvents :
            Begins(p, e[1], "join") /\ JoinMeetingEvent(p, e[1], e[2])
            => Untouched(p) /\ last'.op = "join" /\ last'.res = "Invalid"
        /\ \A p \in Procs, s \in Sockets, data \in InvalidSendData :
            Begins(p, s, "send") /\ SendMessageEvent(p, s, data)
            => Untouched(p) /\ last'.op = "send" /\ last'.res = "Invalid"
      ]_vars

\* a text was rejected as invalid on a connection that had joined a meeting
\* the cache holds, and a join was rejected as invalid on a connection too
C16_Witness ==
    /\ last.res = "Invalid"
    /\ last.op \in {"join", "send"}
    /\ sock[last.sock].data.meetingId # Undefined
    /\ cache[sock[last.sock].data.meetingId] # NoRef
    /\ Len(store[sock[last.sock].data.meetingId].participants) > 0

\* every message of a stored document and of a meeting object has a text of 1
\* to 1000 characters
TextsBounded ==
    /\ \A d \in Documents : \A i \in 1..Len(d.messages) :
          StrLen(d.messages[i].text) \in 1..1000
    /\ \A o \in Objects : \A i \in 1..Len(o.messages) :
          StrLen(o.messages[i].text) \in 1..1000

\* the handler in slot p went past the validation of the text: it awaits the
\* store, or it returned with something other than "Invalid message"
Accepted(p) ==
    \/ procs'[p].op = "send" /\ StrLen(procs'[p].msg.text) \in 1..1000
    \/ procs'[p] = Idle /\ last'.op = "send" /\ last'.res # "Invalid"

\* C17: a send-message text of exactly 1000 characters is accepted, a text of
\* 1001 characters is rejected and an all-whitespace text is rejected; every
\* message a document or a meeting object holds has a text of 1 to 1000
\* characters
C17_MessageLengthBoundary ==
    /\ TextsBounded
    /\ [][ /\ TextsBounded'
           /\ \A p \in Procs, s \in Sockets, data \in SendData :
                 ( /\ data.text.type = "string"
                   /\ Begins(p, s, "send")
                   /\ SendMessageEvent(p, s, data) )
                 => /\ (StrLen(data.text.runs) = 1000 /\ ~BlankField(data.text))
                        => Accepted(p)
                    /\ StrLen(data.text.runs) = 1001
                        => procs'[p] = Idle /\ last'.res = "Invalid"
                    /\ BlankField(data.text)
                        => procs'[p] = Idle /\ last'.res = "Invalid"
         ]_vars

\* a message of 1000 characters was stored and acknowledged with new-message
C17_Witness ==
    /\ last.op = "send" /\ last.res = "ok"
    /\ \E i \in 1..Len(store[last.m].messages) :
          /\ StrLen(store[last.m].messages[i].text) = 1000
          /\ store[last.m].messages[i].userId = last.uid

\* C18: isValidMeetingId accepts a string if and only if it consists of exactly
\* 6 ASCII digits: a GET /api/meetings/:meetingId is answered 400 "Invalid
\* meeting ID" exactly for the identifiers of another length, with a character
\* that is no ASCII digit, or empty
C18_SixDigitsExactly ==
    [][ \A p \in Procs, v \in IdValues :
          (Begins(p, 0, "get") /\ GetMeetingEvent(p, v))
          => /\ (procs'[p] = Idle /\ last'.res = "Invalid") <=> ~SixAsciiDigits(v)
             /\ isValidMeetingId(v) <=> SixAsciiDigits(v)
      ]_vars

\* a GET with an identifier that is not 6 digits was refused while a meeting
\* with a 6-digit identifier exists
C18_Witness ==
    /\ last.op = "get" /\ last.res = "Invalid"
    /\ \E m \in MeetingIds : store[m].exists /\ SixAsciiDigits(JsString(generateMeetingId(m)))

\* C19: when a successful create returns, the identifier of the meeting passes
\* isValidMeetingId, createdBy is the requesting creator, the participant and
\* message lists are empty, isActive is true, maxParticipants is 10, and the
\* store and the cache hold that same state
C19_CreateResult ==
    [][ \A p \in Procs :
          (procs[p].op = "create" /\ procs[p].pc = "written" /\ CreateWritten(p))
          => LET m == procs[p].m
                 o == heap[procs[p].ref]
             IN  /\ last'.res = "ok"
                 /\ isValidMeetingId(JsString(generateMeetingId(m)))
                 /\ SixAsciiDigits(JsString(generateMeetingId(m)))
                 /\ o = NewMeeting(m, procs[p].uid)
                 /\ o.maxParticipants = 10
                 /\ cache'[m] # NoRef
                 /\ heap'[cache'[m]] = o
                 /\ store'[m] = DocOf(o)
      ]_vars

\* the join-meeting handler of slot p returns in this step
JoinReturns(p) ==
    /\ procs'[p] = Idle
    /\ last'.op = "join"
    /\ procs[p].op = "join" \/ (CanStart(p) /\ ops' = ops + 1)

\* joined-meeting carries a participants list that holds the joiner, and
\* user-joined the number of participants of the meeting
JoinedOutcome(p) ==
    /\ last'.res = "ok"
    /\ last'.ev = {"joined-meeting", "user-joined"}
    /\ procs[p].pc = "written"
    /\ LET o == heap[procs[p].ref]
       IN  /\ \E i \in 1..Len(o.participants) : o.participants[i].uid = procs[p].uid
           /\ last'.cnt = Len(o.participants)

JoinErrorOutcome == last'.res # "ok" /\ last'.ev = {"join-error"}

\* C20: every join-meeting request ends in exactly one of two outcomes: either
\* joined-meeting goes to the joining connection, its participants list holding
\* the joiner, and user-joined goes to the rest of the room with the count of
\* participants after the join; or join-error goes to the joining connection
\* and neither of the other two events is emitted
C20_JoinOutcomes ==
    [][ \A p \in Procs : JoinReturns(p) => (JoinedOutcome(p) \/ JoinErrorOutcome) ]_vars

\* the message x is in the list ms, in its stored form
Holds(ms, x) == \E i \in 1..Len(ms) : ms[i] = encodeMessage(x)

\* the send-message handler of slot p returns in this step
SendReturns(p) ==
    /\ procs'[p] = Idle
    /\ last'.op = "send"
    /\ procs[p].op = "send" \/ (CanStart(p) /\ ops' = ops + 1)

\* C21: new-message is broadcast to the room only after the message was
\* appended to the meeting object and the store committed the write that holds
\* it; a send-message that fails in validation or in addMessage ends with error
\* to the sender and without new-message
C21_BroadcastAfterPersist ==
    [][ \A p \in Procs :
          /\ (procs[p].op = "send" /\ procs[p].pc = "writing" /\ StoreWrite(p))
             => Holds(store'[procs[p].m].messages, procs[p].msg)
          /\ SendReturns(p)
             => \/ /\ last'.res = "ok"
                   /\ last'.ev = {"new-message"}
                   /\ procs[p].pc = "written"
                   /\ Holds(encodeMessages(heap[procs[p].ref].messages), procs[p].msg)
                \/ /\ last'.res # "ok"
                   /\ last'.ev = {"error"}
                   /\ procs[p].pc # "written"
      ]_vars

\* a send-message was answered with new-message and its message is stored
C21_Witness ==
    /\ last.op = "send" /\ last.res = "ok"
    /\ \E i \in 1..Len(store[last.m].messages) :
          /\ store[last.m].messages[i].userId = last.uid
          /\ store[last.m].messages[i].text = Text
    /\ acked[last.m] > 0

\* the participants the registry has of meeting m: those of the cached object,
\* or of the stored document when the meeting is not cached
Current(c, h, st, m) ==
    IF c[m] # NoRef THEN encodeParticipants(h[c[m]].participants)
    ELSE st[m].participants

\* the disconnect handler of slot p returns in this step, for a connection that
\* had joined a meeting
DisconnectReturns(p) ==
    /\ procs'[p] = Idle
    /\ last'.op = "disconnect"
    /\ last'.m # Undefined
    /\ procs[p].op = "disconnect" \/ (CanStart(p) /\ ops' = ops + 1)

\* C22: when a connection that has joined a meeting disconnects, the leave is
\* performed for its session identifier, and user-left is then emitted with
\* participantCount equal to the number of participants the meeting has after
\* that leave
C22_UserLeftCountsRemaining ==
    [][ \A p \in Procs :
          DisconnectReturns(p)
          => LET left == Current(cache', heap', store', last'.m)
             IN  /\ last'.ev = {"user-left"}
                 /\ \A i \in 1..Len(left) : left[i].socketId # last'.sock
                 /\ last'.cnt = Len(left)
      ]_vars

\* the list a is the beginning of the list b
IsPrefix(a, b) == Len(a) <= Len(b) /\ SubSeq(b, 1, Len(a)) = a

\* C23: the message list of a meeting is append-only: no step removes, reorders
\* or alters a message of a stored document or of the cached meeting object,
\* and an addMessage that goes on to its write has extended the list of its
\* meeting object by exactly its message at the end
C23_MessagesAppendOnly ==
    [][ /\ \A m \in MeetingIds :
              /\ (store[m].exists /\ store'[m].exists)
                 => IsPrefix(store[m].messages, store'[m].messages)
              /\ (cache[m] # NoRef /\ cache'[m] # NoRef)
                 => IsPrefix(encodeMessages(heap[cache[m]].messages),
                             encodeMessages(heap'[cache'[m]].messages))
        /\ \A p \in Procs :
              (procs[p].pc # "writing" /\ procs'[p].op = "send" /\ procs'[p].pc = "writing")
              => /\ "messages" \in procs'[p].wr.f
                 /\ heap'[procs'[p].ref].messages # <<>>
                 /\ heap'[procs'[p].ref].messages[Len(heap'[procs'[p].ref].messages)]
                       = procs'[p].msg
                 /\ procs'[p].wr.doc.messages = encodeMessages(heap'[procs'[p].ref].messages)
      ]_vars

\* the messages of a list carry pairwise distinct identifiers
DistinctIds(ms) == \A i, j \in 1..Len(ms) : ms[i].id = ms[j].id => i = j

\* C24: message identifiers are unique within a meeting: no stored document
\* and no meeting object ever holds two messages with the same id, two
\* messages of one sender at one clock value included
C24_MessageIdsUnique ==
    /\ \A d \in Documents : DistinctIds(d.messages)
    /\ \A o \in Objects : DistinctIds(o.messages)

\* the store call the handler in slot p awaited has errored
StoreCallErrored(p) ==
    \/ procs[p].pc = "failed"
    \/ procs[p].pc = "fetched" /\ ~procs[p].rd.ok

\* C25: a store call that errors during create, join, end or addMessage ends
\* that operation with its generic failure, not with NotFound or success, and
\* without another store call
C25_StoreErrorIsGenericFailure ==
    [][ \A p \in Procs :
          (/\ procs[p].op \in {"create", "join", "end", "send"}
           /\ StoreCallErrored(p)
           /\ procs'[p] # procs[p])
          => /\ procs'[p] = Idle
             /\ last'.op = procs[p].op
             /\ last'.res = "Failed" ]_vars

\* the meeting object o and the document d agree on participants, messages
\* and isActive
Mirrors(o, d) ==
    /\ d.exists
    /\ encodeParticipants(o.participants) = d.participants
    /\ encodeMessages(o.messages) = d.messages
    /\ o.isActive = d.isActive

\* C26: the store mirrors the registry: when every handler has returned, no
\* store call has errored and no object holds a message the store refuses
\* (an undefined field), each cached meeting has the participants, messages
\* and isActive of its document
C26_StoreMirrorsRegistry ==
    (/\ Quiescent
     /\ faults = 0
     /\ \A o \in Objects : ~HasUndefined(o.messages))
    => \A m \in MeetingIds : cache[m] # NoRef => Mirrors(heap[cache[m]], store[m])

\* C27: summarization is triggered at most once per meeting: over any
\* sequence of end and leave operations the summarizer is called at most once
\* for a meeting
C27_SummarizedAtMostOnce == \A m \in MeetingIds : summCalls[m] <= 1

\* the meeting object o lists the connection s, or the user uid it carries
IsParticipant(o, s, uid) ==
    \E i \in 1..Len(o.participants) :
        o.participants[i].socketId = s \/ o.participants[i].uid = uid

\* the handler in slot p appends its message and issues the write
Appends(p) ==
    /\ procs[p].pc # "writing"
    /\ procs'[p].op = "send"
    /\ procs'[p].pc = "writing"

\* C28: a message is appended only for a sender that is a participant of the
\* meeting at that moment: the meeting lists the sending connection (or its
\* user) when addMessage appends
C28_OnlyParticipantsSend ==
    [][ \A p \in Procs :
          Appends(p)
          => IsParticipant(heap'[procs'[p].ref], procs'[p].sock, procs'[p].uid) ]_vars

\* the participant list ps has an entry of connection s
ListsSocket(ps, s) == \E i \in 1..Len(ps) : ps[i].socketId = s

\* C29: no ghost participants: when a connection has disconnected, every
\* handler has returned and no store call has errored, no participant list,
\* of a cached meeting or of a document, has an entry with the session id of
\* that connection
C29_NoGhostParticipants ==
    (Quiescent /\ faults = 0)
    => \A s \in Sockets :
          sock[s].st = "closed"
          => /\ \A d \in Documents : ~ListsSocket(d.participants, s)
             /\ \A m \in MeetingIds :
                   cache[m] # NoRef => ~ListsSocket(heap[cache[m]].participants, s)

\* the handler in slot p returns the failure of its rejected store write
WriteFails(p) ==
    /\ procs[p].op \in {"join", "send", "end"}
    /\ procs[p].pc = "failed"
    /\ procs'[p] = Idle
    /\ last'.res = "Failed"

\* C30: an operation that reports failure leaves the registry unchanged,
\* stated for the operation that runs alone from an initial state (it is the
\* only one begun so far), where every active meeting is cached as stored and
\* was never summarized: when a join, addMessage or end on such a meeting
\* fails on its store write, the meeting is still cached with the
\* participants, messages and isActive of the (unchanged) document, and no
\* summarizer call was made
C30_FailureLeavesRegistry ==
    [][ \A p \in Procs :
          (WriteFails(p) /\ ops = 1 /\ store[procs[p].m].isActive)
          => LET m == procs[p].m
             IN  /\ cache'[m] # NoRef
                 /\ Mirrors(heap'[cache'[m]], store'[m])
                 /\ summCalls'[m] = 0
                 /\ tasks' = <<>> ]_vars

\* the disconnect handler in slot p returns straight after its leaveMeeting,
\* getParticipants being answered from the cache
LeaveAnnounced(p) ==
    /\ procs[p].op = "disconnect"
    /\ procs[p].pc \in {"written", "failed"}
    /\ procs'[p] = Idle
    /\ last'.ev = {"user-left"}

\* C31: user-left is emitted for a user only when that user's entry was
\* removed: the participant list the leave has just produced does not list
\* the user of the connection (after a re-join from a new connection the
\* entry stays, under the new session identifier, and no departure is to be
\* announced)
C31_UserLeftOnlyWhenRemoved ==
    [][ \A p \in Procs :
          LeaveAnnounced(p)
          => sock[procs[p].sock].data.uid
                \notin UidsOf(procs[p].wr.doc.participants) ]_vars

====
